---------------------------- MODULE Spec2Model ----------------------------
(***************************************************************************)
(* cargo-embassy: `cargo embassy init`.  A model of Init::run_inner        *)
(* (src/init.rs): normalisation of the chip name, chip resolution,         *)
(* softdevice validation, and the sequence of artifact-emission calls      *)
(* (cargo new, file writes, cargo add) that follows.                       *)
(*                                                                         *)
(* Text is modelled as a sequence of string fragments whose concatenation  *)
(* is the text: a literal of the source is one fragment, a chip name is    *)
(* one fragment per character (so that replace/to_lowercase/starts_with    *)
(* can be computed on it).                                                 *)
(***************************************************************************)
EXTENDS Naturals, Sequences, FiniteSets

VARIABLES
    raw,                \* the chip name as typed by the user (InitArgs.chip_name on entry)
    args,               \* InitArgs, owned by run_inner (chip_name is overwritten at line 45)
    pc,                 \* position of run_inner
    chip,               \* the Chip returned by get_target_info, NoChip before
    probe_target_name,  \* the String returned by get_target_info
    queries,            \* the queries passed to search_chips so far
    calls,              \* the artifact-emission calls made so far, in order
    idx,                \* init_manifest: index of the next dependency directive
    failed,             \* whether a package-manager invocation (cargo new, cargo add) has failed
    result              \* Running, Ok, the Err returned by run_inner, or Panicked

vars == <<raw, args, pc, chip, probe_target_name, queries, calls, idx, failed, result>>

-----------------------------------------------------------------------------
(* Bounds and input domains *)

MaxSuffix == 2

Lit(s) == <<s>>

None == "None"

NoChip == [name |-> <<>>, family |-> [kind |-> "none"], target |-> "none"]

\* The characters that may follow a stem in a typed chip name.
SuffixChars == {"1", "4", "-", "_", "x", "X"}

Suffixes == UNION {[1..n -> SuffixChars] : n \in 0..MaxSuffix}

Stems ==
    { <<"s","t","m","3","2","f">>, <<"S","T","M","3","2","F">>,
      <<"n","r","f","5","2">>,     <<"N","r","F","5","2">>,
      <<"f","o","o">> }

RawNames == {stem \o suf : stem \in Stems, suf \in Suffixes}

ProjectName == Lit("app")

-----------------------------------------------------------------------------
(* Collaborators outside src/ *)

\* parser::init_args::soft_device::Softdevice and its str()
Softdevices == {"S112", "S140"}

SoftdeviceStr(sd) == IF sd = "S112" THEN "s112" ELSE "s140"

\* parser::init_args::panic_handler::PanicHandler and its str()
PanicHandlers == {"Halt", "Reset"}

PanicHandlerStr(ph) == IF ph = "Halt" THEN "panic-halt" ELSE "panic-reset"

\* inflector's to_snake_case on the two panic handler crate names
to_snake_case(s) == IF s = "panic-halt" THEN "panic_halt" ELSE "panic_reset"

STM32 == [kind |-> "STM32"]

NRF(mem) == [kind |-> "NRF", mem |-> mem]

IsNRF(family) == family.kind = "NRF"

\* chip::Chip's FromStr: the first entry whose signature is a prefix of the
\* identifier gives the family and the target.
ChipTable ==
    << [prefix |-> <<"n","r","f","5","2">>, family |-> NRF("MemRegion::NRF52"),
        target |-> "thumbv7em-none-eabihf"],
       [prefix |-> <<"s","t","m","3","2","f","1">>, family |-> STM32,
        target |-> "thumbv7m-none-eabi"],
       [prefix |-> <<"s","t","m","3","2","f","4">>, family |-> STM32,
        target |-> "thumbv7em-none-eabihf"] >>

StartsWith(s, p) == Len(p) =< Len(s) /\ SubSeq(s, 1, Len(p)) = p

Err(kind, arg) == [err |-> kind, arg |-> arg]

Ok == [ok |-> TRUE]

Running == [running |-> TRUE]

Panicked == [panic |-> TRUE]

Found(chips) == [chips |-> chips]

IsErr(r) == "err" \in DOMAIN r

ErrKind(r) == IF IsErr(r) THEN r.err ELSE "none"

ParseChip(name) ==
    LET hits == {i \in DOMAIN ChipTable : StartsWith(name, ChipTable[i].prefix)}
    IN  IF hits = {}
        THEN Err("InvalidChip", Lit("Unknown"))
        ELSE LET i == CHOOSE j \in hits : \A k \in hits : j =< k
             IN  [name |-> name, family |-> ChipTable[i].family,
                  target |-> ChipTable[i].target]

\* probe_rs's registry of canonical chip identifiers, in its own order
Registry ==
    << <<"S","T","M","3","2","F","1","4","x">>,
       <<"S","T","M","3","2","F","4","1","X">>,
       <<"S","T","M","3","2","F","4","4">>,
       <<"n","R","F","5","2","_","x","X">>,
       <<"n","R","F","5","2","1","4">> >>

Uppercase == <<"A","B","C","D","E","F","G","H","I","J","K","L","M",
               "N","O","P","Q","R","S","T","U","V","W","X","Y","Z">>

Lowercase == <<"a","b","c","d","e","f","g","h","i","j","k","l","m",
               "n","o","p","q","r","s","t","u","v","w","x","y","z">>

\* char::to_lowercase on the ASCII letters
LowerMap ==
    [c \in {Uppercase[i] : i \in DOMAIN Uppercase} |->
        Lowercase[CHOOSE i \in DOMAIN Uppercase : Uppercase[i] = c]]

LowerChar(c) == IF c \in DOMAIN LowerMap THEN LowerMap[c] ELSE c

ToLowercase(s) == [i \in DOMAIN s |-> LowerChar(s[i])]

Replace(s, from, to) == [i \in DOMAIN s |-> IF s[i] = from THEN to ELSE s[i]]

\* probe_rs::config::search_chips: the registry's identifiers that start with
\* the query, compared case-insensitively, in registry order.
search_chips(name) ==
    SelectSeq(Registry, LAMBDA c : StartsWith(ToLowercase(c), ToLowercase(name)))

\* probe_rs::config::get_target_by_name(..).name for an identifier of the registry
get_target_by_name(id) == id

-----------------------------------------------------------------------------
(* run_inner, line 45 *)

\* line 45 without the replace: the separators are left as typed
Normalize_CaseOnly(s) == ToLowercase(s)

Normalize(s) == ToLowercase(Replace(s, "-", "_"))

\* get_target_info parsing the first candidate's identifier instead of name
get_target_info_FromCandidate(name, found) ==
    IF IsErr(found)
    THEN Err("InvalidChip", Lit("Unknown"))
    ELSE IF found.chips = <<>>
    THEN Err("InvalidChip", Lit("Unknown"))
    ELSE LET parsed == ParseChip(Normalize(Head(found.chips)))
         IN  IF IsErr(parsed)
             THEN parsed
             ELSE [chip |-> parsed,
                   probe_target_name |-> get_target_by_name(Head(found.chips))]

\* get_target_info (lines 87-101) on the result of search_chips, which is
\* Err(..) or Found(the vector of candidates): the value it returns.
get_target_info(name, found) ==
    IF IsErr(found)
    THEN Err("InvalidChip", Lit("Unknown"))
    ELSE IF found.chips = <<>>
    THEN Err("InvalidChip", Lit("Unknown"))
    ELSE LET parsed == ParseChip(name)
         IN  IF IsErr(parsed)
             THEN parsed
             ELSE [chip |-> parsed,
                   probe_target_name |-> get_target_by_name(Head(found.chips))]

\* line 50 without the family test
SoftdeviceIncompatible_AnyFamily(softdevice, family) == softdevice # None

\* run_inner, line 50: the condition under which ErroneousSoftdevice is returned
SoftdeviceIncompatible(softdevice, family) ==
    softdevice # None /\ ~IsNRF(family)

-----------------------------------------------------------------------------
(* init_manifest: the dependency directives, lines 155-211 *)

Directive(name, features, optional) ==
    [name |-> name, features |-> features, optional |-> optional]

CoreDirectives ==
    << Directive(Lit("embassy-executor"),
                 <<Lit("arch-cortex-m"), Lit("executor-thread"), Lit("integrated-timers")>>,
                 FALSE),
       Directive(Lit("embassy-sync"), <<>>, FALSE),
       Directive(Lit("embassy-futures"), <<>>, FALSE),
       Directive(Lit("embassy-time"), <<Lit("tick-hz-32_768")>>, FALSE) >>

\* lines 164-181 with the chip name left out of the STM32 feature list
HalDirective_NoChipFeature(c) ==
    IF IsNRF(c.family)
    THEN Directive(Lit("embassy-nrf"),
                   <<c.name, Lit("gpiote"), Lit("time-driver-rtc1")>>, FALSE)
    ELSE Directive(Lit("embassy-stm32"),
                   <<Lit("memory-x"), Lit("time-driver-any"), Lit("exti"),
                     Lit("unstable-pac")>>, FALSE)

HalDirective(c) ==
    IF IsNRF(c.family)
    THEN Directive(Lit("embassy-nrf"),
                   <<c.name, Lit("gpiote"), Lit("time-driver-rtc1")>>, FALSE)
    ELSE Directive(Lit("embassy-stm32"),
                   <<Lit("memory-x"), c.name, Lit("time-driver-any"), Lit("exti"),
                     Lit("unstable-pac")>>, FALSE)

\* lines 183-196 without the companion crate of line 195
SoftdeviceDirectives_NoCompanion(c, softdevice) ==
    IF softdevice # None
    THEN << Directive(Lit("nrf-softdevice"),
                      <<c.name, Lit(SoftdeviceStr(softdevice)), Lit("ble-peripheral"),
                        Lit("ble-gatt-server"), Lit("critical-section-impl")>>, FALSE) >>
    ELSE <<>>

SoftdeviceDirectives(c, softdevice) ==
    IF softdevice # None
    THEN << Directive(Lit("nrf-softdevice"),
                      <<c.name, Lit(SoftdeviceStr(softdevice)), Lit("ble-peripheral"),
                        Lit("ble-gatt-server"), Lit("critical-section-impl")>>, FALSE),
            Directive(Lit("nrf-softdevice-") \o Lit(SoftdeviceStr(softdevice)), <<>>, FALSE) >>
    ELSE <<>>

\* lines 198-206 without the test of the softdevice
CortexMDirective_AlwaysSingleCore(softdevice) ==
    Directive(Lit("cortex-m"),
              <<Lit("inline-asm"), Lit("critical-section-single-core")>>, FALSE)

CortexMDirective(softdevice) ==
    Directive(Lit("cortex-m"),
              IF softdevice # None
              THEN <<Lit("inline-asm")>>
              ELSE <<Lit("inline-asm"), Lit("critical-section-single-core")>>,
              FALSE)

TailDirectives(panic_handler) ==
    << Directive(Lit("cortex-m-rt"), <<>>, FALSE),
       Directive(Lit("defmt"), <<>>, TRUE),
       Directive(Lit("defmt-rtt"), <<>>, TRUE),
       Directive(Lit("panic-probe"), <<Lit("print-defmt")>>, TRUE),
       Directive(Lit(PanicHandlerStr(panic_handler)), <<>>, FALSE) >>

\* lines 155-211 with the softdevice block moved before the match on the family
ManifestPlan_SoftdeviceFirst(c, panic_handler, softdevice) ==
    CoreDirectives \o SoftdeviceDirectives(c, softdevice) \o <<HalDirective(c)>>
        \o <<CortexMDirective(softdevice)>> \o TailDirectives(panic_handler)

ManifestPlan(c, panic_handler, softdevice) ==
    CoreDirectives \o <<HalDirective(c)>> \o SoftdeviceDirectives(c, softdevice)
        \o <<CortexMDirective(softdevice)>> \o TailDirectives(panic_handler)

-----------------------------------------------------------------------------
(* Template selection *)

\* init_build, lines 134-137
BuildTemplate(family) ==
    IF IsNRF(family) THEN "build.rs.nrf.template" ELSE "build.rs.stm32.template"

\* lines 258-275 without the softdevice arm
MainTemplate_IgnoresSoftdevice(family, softdevice) ==
    IF ~IsNRF(family) THEN "main.rs.stm32.template" ELSE "main.rs.nrf.template"

\* init_main, lines 258-275
MainTemplate(family, softdevice) ==
    IF ~IsNRF(family) THEN "main.rs.stm32.template"
    ELSE IF softdevice # None THEN "main.rs.nrf.sd.template"
    ELSE "main.rs.nrf.template"

\* init_manifest, lines 229-236: what is appended to Cargo.toml
ManifestAppendix(family, softdevice) ==
    IF softdevice # None
    THEN [template |-> "Cargo.toml.sd.append", subst |-> <<>>]
    ELSE [template |-> "Cargo.toml.append", subst |-> <<family.kind>>]

-----------------------------------------------------------------------------
(* Outcomes of the calls to the outside *)

\* std::process::Command::output(): the process ran and exited with success,
\* ran and exited with a failure status, or could not be spawned (Err).
CommandOutcomes == {"ok", "exit_fail", "spawn_err"}

\* a file-system operation returns Ok or Err
FsOutcomes == {"ok", "err"}

FileCall(path, template, subst) ==
    [op |-> "create_file", name |-> Lit(path), template |-> template, subst |-> subst]

\* whether a package-manager invocation has failed, once one has ended with out
NoteFailure(out) == failed \/ out # "ok"

Return(r) == result' = r /\ pc' = "done"

\* create_file, lines 292-306, as the last statement of a step that goes on at next
create_file(path, template, subst, next) ==
    \E out \in FsOutcomes :
        /\ calls' = Append(calls, FileCall(path, template, subst))
        /\ IF out = "err"
           THEN Return(Err("CreateFile", Lit(path)))
           ELSE result' = result /\ pc' = next

-----------------------------------------------------------------------------
(* The state machine of run_inner *)

Init ==
    /\ raw \in RawNames
    /\ \E ph \in PanicHandlers, sd \in Softdevices \cup {None} :
          args = [chip_name |-> raw, name |-> ProjectName,
                  panic_handler |-> ph, softdevice |-> sd]
    /\ pc = "start"
    /\ chip = NoChip
    /\ probe_target_name = <<>>
    /\ queries = <<>>
    /\ calls = <<>>
    /\ idx = 0
    /\ failed = FALSE
    /\ result = Running

\* line 45
NormalizeChipName ==
    /\ pc = "start"
    /\ args' = [args EXCEPT !.chip_name = Normalize(args.chip_name)]
    /\ pc' = "get_target_info"
    /\ UNCHANGED <<raw, chip, probe_target_name, queries, calls, idx, failed, result>>

\* line 47; search_chips may also return Err
GetTargetInfo ==
    /\ pc = "get_target_info"
    /\ queries' = Append(queries, args.chip_name)
    /\ \E found \in {Found(search_chips(args.chip_name)), Err("Registry", <<>>)} :
          LET info == get_target_info(args.chip_name, found)
          IN  IF IsErr(info)
              THEN /\ Return(info)
                   /\ UNCHANGED <<chip, probe_target_name>>
              ELSE /\ chip' = info.chip
                   /\ probe_target_name' = info.probe_target_name
                   /\ pc' = "validate"
                   /\ result' = result
    /\ UNCHANGED <<raw, args, calls, idx, failed>>

\* lines 49-52 moved after the cargo new of create_project
ValidateSoftdevice_AfterCreate ==
    /\ pc = "validate"
    /\ calls' = Append(calls, [op |-> "cargo_new", name |-> args.name])
    /\ IF SoftdeviceIncompatible(args.softdevice, chip.family)
       THEN Return(Err("ErroneousSoftdevice", <<>>))
       ELSE result' = result /\ pc' = "create_project"
    /\ UNCHANGED <<raw, args, chip, probe_target_name, queries, idx, failed>>

\* lines 49-52
ValidateSoftdevice ==
    /\ pc = "validate"
    /\ IF SoftdeviceIncompatible(args.softdevice, chip.family)
       THEN Return(Err("ErroneousSoftdevice", <<>>))
       ELSE result' = result /\ pc' = "create_project"
    /\ UNCHANGED <<raw, args, chip, probe_target_name, queries, calls, idx, failed>>

\* line 54, create_project lines 77-85
CreateProject ==
    /\ pc = "create_project"
    /\ \E out \in CommandOutcomes, cd \in FsOutcomes :
          LET new == [op |-> "cargo_new", name |-> args.name]
              dir == [op |-> "set_current_dir", name |-> args.name]
          IN  /\ failed' = NoteFailure(out)
              /\ IF out = "spawn_err"
                 THEN calls' = Append(calls, new) /\ Return(Err("CreateCargo", <<>>))
                 ELSE /\ calls' = calls \o <<new, dir>>
                      /\ IF cd = "err"
                         THEN Return(Err("ChangeDir", <<>>))
                         ELSE result' = result /\ pc' = "init_config"
    /\ UNCHANGED <<raw, args, chip, probe_target_name, queries, idx>>

\* line 56, init_config lines 103-114
InitConfig ==
    /\ pc = "init_config"
    /\ \E mk \in FsOutcomes :
          LET dir == [op |-> "create_dir_all", name |-> Lit(".cargo")]
          IN  IF mk = "err"
              THEN calls' = Append(calls, dir) /\ Return(Err("CreateFolder", Lit(".cargo")))
              ELSE \E out \in FsOutcomes :
                      /\ calls' = calls \o
                            <<dir, FileCall(".cargo/config.toml", "config.toml.template",
                                            <<Lit(chip.target), probe_target_name>>)>>
                      /\ IF out = "err"
                         THEN Return(Err("CreateFile", Lit(".cargo/config.toml")))
                         ELSE result' = result /\ pc' = "init_toolchain"
    /\ UNCHANGED <<raw, args, chip, probe_target_name, queries, idx, failed>>

\* line 57, init_toolchain lines 116-124
InitToolchain ==
    /\ pc = "init_toolchain"
    /\ create_file("rust-toolchain.toml", "rust-toolchain.toml.template",
                   <<Lit(chip.target)>>, "init_embed")
    /\ UNCHANGED <<raw, args, chip, probe_target_name, queries, idx, failed>>

\* line 58, init_embed lines 126-131
InitEmbed ==
    /\ pc = "init_embed"
    /\ create_file("Embed.toml", "Embed.toml.template", <<probe_target_name>>, "init_build")
    /\ UNCHANGED <<raw, args, chip, probe_target_name, queries, idx, failed>>

\* line 59, init_build lines 133-140
InitBuild ==
    /\ pc = "init_build"
    /\ create_file("build.rs", BuildTemplate(chip.family), <<>>, "init_manifest")
    /\ UNCHANGED <<raw, args, chip, probe_target_name, queries, idx, failed>>

\* line 60, init_manifest lines 149-152: the manifest file itself
InitManifest ==
    /\ pc = "init_manifest"
    /\ create_file("Cargo.toml", "Cargo.toml.template", <<args.name>>, "cargo_add")
    /\ idx' = 1
    /\ UNCHANGED <<raw, args, chip, probe_target_name, queries, failed>>

\* init_manifest lines 155-211: the next cargo_add (lines 308-329).  Only a
\* process that could not be spawned is an Err; the exit status is not read.
CargoAdd ==
    /\ pc = "cargo_add"
    /\ LET plan == ManifestPlan(chip, args.panic_handler, args.softdevice)
           d == plan[idx]
       IN  \E out \in CommandOutcomes :
              /\ calls' = Append(calls, [op |-> "cargo_add", name |-> d.name,
                                         features |-> d.features, optional |-> d.optional])
              /\ failed' = NoteFailure(out)
              /\ IF out = "spawn_err"
                 THEN Return(Err("CargoAdd", d.name)) /\ idx' = idx
                 ELSE /\ idx' = idx + 1
                      /\ result' = result
                      /\ pc' = IF idx = Len(plan) THEN "manifest_append" ELSE "cargo_add"
    /\ UNCHANGED <<raw, args, chip, probe_target_name, queries>>

\* init_manifest lines 213-241: reopen Cargo.toml, patch in [features] when
\* cargo add did not create it, append the family's section
ManifestAppend ==
    /\ pc = "manifest_append"
    /\ \E open \in FsOutcomes, read \in FsOutcomes, has_features \in BOOLEAN,
          patch \in FsOutcomes, app \in FsOutcomes :
          LET p == [op |-> "append", name |-> Lit("Cargo.toml"),
                    template |-> "Cargo.toml.feature-patch.template", subst |-> <<>>]
              x == ManifestAppendix(chip.family, args.softdevice)
              a == [op |-> "append", name |-> Lit("Cargo.toml"),
                    template |-> x.template, subst |-> x.subst]
          IN  IF open = "err"
              THEN calls' = calls /\ Return(Err("CreateFile", Lit("Cargo.toml")))
              ELSE IF read = "err"
              THEN calls' = calls /\ Return(Panicked)
              ELSE IF ~has_features /\ patch = "err"
              THEN calls' = Append(calls, p) /\ Return(Err("CreateFile", Lit("Cargo.toml")))
              ELSE /\ calls' = (IF has_features THEN calls ELSE Append(calls, p)) \o <<a>>
                   /\ IF app = "err"
                      THEN Return(Err("CreateFile", Lit("Cargo.toml")))
                      ELSE result' = result /\ pc' = "init_fmt"
    /\ UNCHANGED <<raw, args, chip, probe_target_name, queries, idx, failed>>

\* line 66, init_fmt lines 244-246
InitFmt ==
    /\ pc = "init_fmt"
    /\ create_file("src/fmt.rs", "fmt.rs.template", <<>>, "init_main")
    /\ UNCHANGED <<raw, args, chip, probe_target_name, queries, idx, failed>>

\* line 67, init_main lines 248-277
InitMain ==
    /\ pc = "init_main"
    /\ create_file("src/main.rs", MainTemplate(chip.family, args.softdevice),
                   <<Lit(to_snake_case(PanicHandlerStr(args.panic_handler)))>>,
                   "init_memory_x")
    /\ UNCHANGED <<raw, args, chip, probe_target_name, queries, idx, failed>>

\* lines 69-74, init_memory_x lines 279-290
InitMemoryX ==
    /\ pc = "init_memory_x"
    /\ IF IsNRF(chip.family)
       THEN \E out \in FsOutcomes :
               /\ calls' = Append(calls, FileCall("memory.x", "memory.x.template",
                                                  <<Lit(chip.family.mem)>>))
               /\ Return(IF out = "err" THEN Err("CreateFile", Lit("memory.x")) ELSE Ok)
       ELSE calls' = calls /\ Return(Ok)
    /\ UNCHANGED <<raw, args, chip, probe_target_name, queries, idx, failed>>

Next ==
    \/ NormalizeChipName
    \/ GetTargetInfo
    \/ ValidateSoftdevice
    \/ CreateProject
    \/ InitConfig
    \/ InitToolchain
    \/ InitEmbed
    \/ InitBuild
    \/ InitManifest
    \/ CargoAdd
    \/ ManifestAppend
    \/ InitFmt
    \/ InitMain
    \/ InitMemoryX

Spec == Init /\ [][Next]_vars

-----------------------------------------------------------------------------
(* Properties *)

Resolved == chip # NoChip

\* the cargo add calls made so far, in order
Adds == SelectSeq(calls, LAMBDA c : c.op = "cargo_add")

\* the file writes made so far, in order
Writes == SelectSeq(calls, LAMBDA c : c.op = "create_file")

Has(features, f) == \E k \in DOMAIN features : features[k] = Lit(f)

\* every cargo add of init_manifest has been issued
ManifestDone ==
    Resolved /\ idx = Len(ManifestPlan(chip, args.panic_handler, args.softdevice)) + 1

(* C1: for every resolved chip and every softdevice choice, run_inner returns
   Error::ErroneousSoftdevice if and only if a softdevice is requested and the
   chip's family is not NRF; an unresolved chip never gives that error. *)
C1_ErroneousSoftdeviceIff ==
    /\ ~Resolved => ErrKind(result) # "ErroneousSoftdevice"
    /\ (Resolved /\ pc # "validate") =>
          (ErrKind(result) = "ErroneousSoftdevice"
              <=> (args.softdevice \in Softdevices /\ chip.family.kind # "NRF"))

C1_Witness ==
    /\ ErrKind(result) = "ErroneousSoftdevice"
    /\ chip.family.kind = "STM32"
    /\ args.softdevice \in Softdevices

(* C2: a run that ends with a chip-resolution error or with the
   softdevice-validation error has made no artifact-emission call, and any
   artifact-emission call is made only after get_target_info and the
   softdevice/family check have both succeeded. *)
C2_NoEmissionBeforeValidation ==
    /\ ErrKind(result) \in {"InvalidChip", "ErroneousSoftdevice"} => calls = <<>>
    /\ calls # <<>> =>
          /\ Resolved
          /\ ~(args.softdevice \in Softdevices /\ chip.family.kind # "NRF")
          /\ pc \notin {"start", "get_target_info", "validate"}

C2_Witness ==
    /\ pc = "done"
    /\ ErrKind(result) = "InvalidChip"
    /\ queries # <<>>
    /\ search_chips(args.chip_name) = <<>>

(* C3 as stated: the Chip handed to the derivation steps is classified from
   the canonical identifier of the first search candidate's record. *)
C3_ChipFromFirstCandidate ==
    Resolved => chip = ParseChip(Normalize(probe_target_name))

(* C3 as amended: the Chip handed to the derivation steps is parsed from the
   normalized chip name the user typed; the first search candidate supplies
   only the probe target name, which is the name of the first candidate's
   record and is what the config and Embed templates receive. *)
C3_ChipFromNormalizedInput ==
    Resolved =>
        /\ chip = ParseChip(Normalize(raw))
        /\ chip.name = Normalize(raw)
        /\ search_chips(Normalize(raw)) # <<>>
        /\ probe_target_name = get_target_by_name(Head(search_chips(Normalize(raw))))
        /\ \A i \in DOMAIN calls :
              (calls[i].op = "create_file" /\ calls[i].name = Lit("Embed.toml"))
                  => calls[i].subst = <<probe_target_name>>

C3_Witness ==
    /\ Resolved
    /\ \E i \in DOMAIN calls :
          calls[i].op = "create_file" /\ calls[i].name = Lit("Embed.toml")
    /\ chip.name # Normalize(probe_target_name)

\* the pairs of characters that are one letter in its two cases, or the two separators
CasePairs == {{Uppercase[k], Lowercase[k]} : k \in DOMAIN Uppercase} \cup {{"-", "_"}}

SameChar(c, d) == c = d \/ {c, d} \in CasePairs

\* a and b differ only in letter case and in '-' versus '_'
SameUpToCaseAndSeparator(a, b) ==
    Len(a) = Len(b) /\ \A i \in DOMAIN a : SameChar(a[i], b[i])

(* C4: raw chip names that differ only in letter case and in '-' versus '_'
   are normalized to the same string, which is the search query issued and
   the string the Chip is parsed from, so they give identical Chip values;
   normalizing a normalized name changes nothing. *)
C4_NormalizationCanonical ==
    /\ pc = "get_target_info" =>
          /\ Normalize(args.chip_name) = args.chip_name
          /\ \A other \in RawNames :
                SameUpToCaseAndSeparator(raw, other) => Normalize(other) = args.chip_name
    /\ queries # <<>> => queries = <<args.chip_name>>
    /\ pc = "validate" =>
          \A other \in RawNames :
              SameUpToCaseAndSeparator(raw, other) =>
                  /\ queries = <<Normalize(other)>>
                  /\ chip = ParseChip(Normalize(other))

C4_Witness ==
    /\ pc = "validate"
    /\ raw # args.chip_name
    /\ \E i \in DOMAIN raw : raw[i] = "-"
    /\ \E i \in DOMAIN raw : raw[i] \in {"S", "N"}

\* the group of a dependency crate: 1 core async runtime, 2 family
\* hardware-abstraction, 3 wireless stack, 4 architecture/runtime support,
\* 5 diagnostics, 6 the chosen panic handler
GroupOf(name) ==
    IF name \in {Lit("embassy-executor"), Lit("embassy-sync"),
                 Lit("embassy-futures"), Lit("embassy-time")} THEN 1
    ELSE IF name \in {Lit("embassy-stm32"), Lit("embassy-nrf")} THEN 2
    ELSE IF Head(name) \in {"nrf-softdevice", "nrf-softdevice-"} THEN 3
    ELSE IF name \in {Lit("cortex-m"), Lit("cortex-m-rt")} THEN 4
    ELSE IF name \in {Lit("defmt"), Lit("defmt-rtt"), Lit("panic-probe")} THEN 5
    ELSE IF name = Lit(PanicHandlerStr(args.panic_handler)) THEN 6
    ELSE 0

\* the sequence a of cargo add calls follows the group order; done: it is complete
GroupOrdered(a, done) ==
    /\ \A i, j \in DOMAIN a :
          i < j => /\ 1 =< GroupOf(a[i].name)
                   /\ GroupOf(a[i].name) =< GroupOf(a[j].name)
    /\ \A i \in DOMAIN a : GroupOf(a[i].name) \in 1..6
    /\ \A i \in DOMAIN a : i =< 4 => a[i].name = CoreDirectives[i].name
    /\ \A i, j \in DOMAIN a :
          (GroupOf(a[i].name) = 2 /\ GroupOf(a[j].name) = 3) => i < j
    /\ done =>
          /\ {GroupOf(a[i].name) : i \in DOMAIN a} =
                IF args.softdevice \in Softdevices THEN 1..6 ELSE {1, 2, 4, 5, 6}
          /\ GroupOf(a[Len(a)].name) = 6
          /\ \A i \in DOMAIN a : GroupOf(a[i].name) = 6 => i = Len(a)

(* C5: the cargo add calls of init_manifest are issued in the fixed group
   order core runtime (executor, sync, futures, time), hardware abstraction,
   optional wireless stack, architecture/runtime support, diagnostics, and
   the chosen panic handler last; the hardware-abstraction call comes
   strictly before the wireless-stack call. *)
C5_GroupOrder == GroupOrdered(Adds, ManifestDone)

C5_Witness ==
    /\ ManifestDone
    /\ pc = "manifest_append"
    /\ chip.family.kind = "NRF"
    /\ args.softdevice \in Softdevices

(* C6 as stated: when a package-manager invocation (cargo new, cargo add)
   fails, the run does not end in success. *)
C6_FailureSurfaces ==
    (pc = "done" /\ failed) => result # Ok

IsHal(d) == d.name \in {Lit("embassy-stm32"), Lit("embassy-nrf")}

\* the sequence a of cargo add calls holds one hardware-abstraction directive, rightly built
OneHalDirective(a, done) ==
    /\ Cardinality({i \in DOMAIN a : IsHal(a[i])}) =< 1
    /\ done => Cardinality({i \in DOMAIN a : IsHal(a[i])}) = 1
    /\ \A i \in DOMAIN a :
          IsHal(a[i]) =>
              /\ ~a[i].optional
              /\ chip.name = Normalize(raw)
              /\ chip.family.kind \in {"STM32", "NRF"}
              /\ chip.family.kind = "STM32" =>
                    /\ a[i].name = Lit("embassy-stm32")
                    /\ a[i].features =
                          <<Lit("memory-x"), Normalize(raw), Lit("time-driver-any"),
                            Lit("exti"), Lit("unstable-pac")>>
              /\ chip.family.kind = "NRF" =>
                    /\ a[i].name = Lit("embassy-nrf")
                    /\ a[i].features =
                          <<Normalize(raw), Lit("gpiote"), Lit("time-driver-rtc1")>>

(* C7: every completed dependency plan holds exactly one hardware-abstraction
   directive, chosen by the family: embassy-stm32 with [memory-x, chip name,
   time-driver-any, exti, unstable-pac] for STM32, embassy-nrf with [chip
   name, gpiote, time-driver-rtc1] for NRF; the chip name in it is the
   normalized chip identifier and the directive is not optional. *)
C7_OneHalDirective == OneHalDirective(Adds, ManifestDone)

C7_Witness ==
    /\ ManifestDone
    /\ chip.family.kind = "STM32"
    /\ \E i \in DOMAIN calls :
          calls[i].op = "cargo_add" /\ calls[i].name = Lit("embassy-stm32")

IsSoftdeviceAdd(d) == d.name = Lit("nrf-softdevice")

\* the sequence a of cargo add calls holds the softdevice directives when it must
SoftdeviceDirectiveRight(a, done) ==
    /\ done =>
          ((\E i \in DOMAIN a : IsSoftdeviceAdd(a[i])) <=> args.softdevice \in Softdevices)
    /\ \A i \in DOMAIN a :
          IsSoftdeviceAdd(a[i]) =>
              /\ args.softdevice \in Softdevices
              /\ chip.family.kind = "NRF"
              /\ \E k \in DOMAIN a[i].features : a[i].features[k] = chip.name
              /\ Has(a[i].features, SoftdeviceStr(args.softdevice))
              /\ Has(a[i].features, "ble-peripheral")
              /\ Has(a[i].features, "ble-gatt-server")
              /\ (i < Len(a) \/ done) =>
                    /\ i < Len(a)
                    /\ a[i + 1].name = <<"nrf-softdevice-", SoftdeviceStr(args.softdevice)>>
                    /\ ~a[i + 1].optional

(* C8: an nrf-softdevice directive is emitted if and only if a softdevice is
   requested, and only for an NRF chip; its features contain the chip name,
   the softdevice's package identifier, ble-peripheral and ble-gatt-server,
   and the next directive is the companion crate
   nrf-softdevice-<package identifier>. *)
C8_SoftdeviceDirective == SoftdeviceDirectiveRight(Adds, ManifestDone)

C8_Witness ==
    /\ ManifestDone
    /\ result = Ok
    /\ \E i \in DOMAIN calls : calls[i].op = "cargo_add" /\ IsSoftdeviceAdd(calls[i])

WritesOf(w, path) == {i \in DOMAIN w : w[i].name = Lit(path)}

\* the sequence w of file writes uses the right template variants
TemplatesRight(w) ==
    /\ \A i \in WritesOf(w, "src/main.rs") :
          w[i].template =
              CASE chip.family.kind = "STM32" -> "main.rs.stm32.template"
                [] chip.family.kind = "NRF" /\ args.softdevice = None
                      -> "main.rs.nrf.template"
                [] chip.family.kind = "NRF" /\ args.softdevice \in Softdevices
                      -> "main.rs.nrf.sd.template"
    /\ \A i \in WritesOf(w, "build.rs") :
          w[i].template =
              CASE chip.family.kind = "STM32" -> "build.rs.stm32.template"
                [] chip.family.kind = "NRF" -> "build.rs.nrf.template"
    /\ WritesOf(w, "memory.x") # {} => chip.family.kind = "NRF"
    /\ result = Ok =>
          /\ Cardinality(WritesOf(w, "src/main.rs")) = 1
          /\ Cardinality(WritesOf(w, "build.rs")) = 1
          /\ chip.family.kind = "STM32" => WritesOf(w, "memory.x") = {}
          /\ chip.family.kind = "NRF" =>
                /\ WritesOf(w, "memory.x") = {Len(w)}
                /\ calls[Len(calls)] = w[Len(w)]
                /\ \A i \in WritesOf(w, "src/main.rs") : i < Len(w)

(* C9: src/main.rs is rendered from the variant chosen by family and
   softdevice presence (STM32; NRF without softdevice; NRF with softdevice),
   build.rs from the variant chosen by the family alone, and memory.x is
   written if and only if the family is NRF: a successful STM32 run writes no
   memory.x, a successful NRF run writes memory.x last, after src/main.rs. *)
C9_TemplateSelection == TemplatesRight(Writes)

C9_Witness ==
    /\ result = Ok
    /\ chip.family.kind = "NRF"
    /\ args.softdevice \in Softdevices
    /\ calls[Len(calls)].name = Lit("memory.x")

EnablesCriticalSection(d) ==
    Has(d.features, "critical-section-single-core") \/ Has(d.features, "critical-section-impl")

\* the sequence a of cargo add calls enables one critical-section implementation
OneCriticalSection(a, done) ==
    /\ Cardinality({i \in DOMAIN a : EnablesCriticalSection(a[i])}) =< 1
    /\ \A i \in DOMAIN a :
          a[i].name = Lit("cortex-m") =>
              /\ Has(a[i].features, "inline-asm")
              /\ Has(a[i].features, "critical-section-single-core")
                    <=> args.softdevice = None
    /\ done =>
          /\ Cardinality({i \in DOMAIN a : a[i].name = Lit("cortex-m")}) = 1
          /\ Cardinality({i \in DOMAIN a : EnablesCriticalSection(a[i])}) = 1
          /\ (\E i \in DOMAIN a :
                 IsSoftdeviceAdd(a[i]) /\ Has(a[i].features, "critical-section-impl"))
                <=> args.softdevice \in Softdevices

(* C10: every completed dependency plan enables exactly one critical-section
   implementation: the cortex-m directive carries critical-section-single-core
   if and only if no softdevice is requested, the nrf-softdevice directive
   carrying critical-section-impl is present if and only if one is requested,
   and the cortex-m directive always carries inline-asm. *)
C10_OneCriticalSection == OneCriticalSection(Adds, ManifestDone)

C10_Witness ==
    /\ ManifestDone
    /\ args.softdevice = None
    /\ \E i \in DOMAIN calls :
          /\ calls[i].op = "cargo_add"
          /\ calls[i].name = Lit("cortex-m")
          /\ Has(calls[i].features, "critical-section-single-core")

=============================================================================
